---- MODULE Spec2Model ----
(***************************************************************************)
(* Model of bin/s32imdbpy.py: the importer of the IMDb s3 dataset          *)
(* (.tsv.gz files) into a SQL database.                                    *)
(*                                                                         *)
(* Strings are sequences of one-character strings, so that str.strip,      *)
(* str.split and str.replace are modelled by what they do.                 *)
(*                                                                         *)
(* Three specifications:                                                   *)
(*   Spec      import_dir / import_file / generate_content as one          *)
(*             sequential program (FairSpec adds its progress);            *)
(*   SpecLine  the per-line body of generate_content (lines 62-70) on      *)
(*             every line up to MaxLineLen characters;                     *)
(*   SpecName  the table name derived by build_table (line 88).            *)
(***************************************************************************)
EXTENDS Integers, Sequences, FiniteSets, TLC

VARIABLES
    listing,    \* import_dir: what glob.glob returned, [name, isfile] each
    i,          \* import_dir: index of the current entry of listing
    pc,         \* position of import_dir / import_file
    gpc,        \* position of the generator generate_content
    headers,    \* import_file: headers (line 111)
    table,      \* import_file: table.name (line 112)
    nread,      \* number of data lines read from fd so far
    data,       \* generate_content: data, the buffer of rows
    block,      \* import_file: block, the loop variable
    count,      \* import_file: count
    db,         \* rows of the file's table in the database
    errLog,     \* the logging.error of line 121: <<>> or <<lost>>
    endLog,     \* the logging.info of line 122: <<>> or <<count>>
    yielded,    \* history: the blocks generate_content yielded for this file
    requests,   \* history: how many times the generator was asked for a block
    nMatch,     \* history: lines read whose raw field count equals len(headers)
    failKind,   \* history: "none", "transform" or "insert"
    failRows,   \* history: rows of the failing block when the error was raised
    invoked,    \* history: indices of listing import_file was invoked for
    failedFiles,\* history: indices of listing whose file had a block failure
    lnIn,       \* SpecLine: [line, headers, table]
    lnOut,      \* SpecLine: result of processing lnIn
    fnIn,       \* SpecName: the file name
    fnOut       \* SpecName: <<>> or <<table_name>>

vars == <<listing, i, pc, gpc, headers, table, nread, data, block, count, db,
          errLog, endLog, yielded, requests, nMatch, failKind, failRows,
          invoked, failedFiles, lnIn, lnOut, fnIn, fnOut>>

fileVars == <<headers, table, nread, data, block, count, db, errLog, endLog,
              yielded, requests, nMatch, failKind, failRows, gpc>>

probeVars == <<lnIn, lnOut, fnIn, fnOut>>

-----------------------------------------------------------------------------
(* Bounds of the model *)

\* BLOCK_SIZE is 10000 in the program (line 36); the model scales it down.
BLOCK_SIZE == 2

\* data lines read from one file
MaxLines == 5

\* entries of the directory listing
MaxFiles == 2

\* characters of a data line (without its newline) in SpecLine
MaxLineLen == 4

\* pieces of a file name's stem in SpecName
MaxStemParts == 3

-----------------------------------------------------------------------------
(* Characters and strings *)

TAB == "\t"
SP == " "
NL == "\n"
BSL == "\\"
DOT == "."
USC == "_"

Whitespace == {SP, TAB, NL}

TSV_EXT == <<DOT, "t", "s", "v", DOT, "g", "z">>

\* r'\N'
NullToken == <<BSL, "N">>

RECURSIVE LStrip(_)
LStrip(s) ==
    IF s # <<>> /\ Head(s) \in Whitespace THEN LStrip(Tail(s)) ELSE s

RECURSIVE RStrip(_)
RStrip(s) ==
    IF s # <<>> /\ s[Len(s)] \in Whitespace
    THEN RStrip(SubSeq(s, 1, Len(s) - 1))
    ELSE s

\* str.strip(): leading and trailing whitespace removed, tabs included
Strip(s) == RStrip(LStrip(s))

\* str.split(sep) for a one-character sep: ''.split(sep) is ['']
RECURSIVE Split(_, _)
Split(s, sep) ==
    IF \A k \in 1..Len(s) : s[k] # sep
    THEN <<s>>
    ELSE LET k == CHOOSE k \in 1..Len(s) :
                      s[k] = sep /\ \A j \in 1..(k - 1) : s[j] # sep
         IN  <<SubSeq(s, 1, k - 1)>> \o Split(SubSeq(s, k + 1, Len(s)), sep)

StartsWith(s, p) == Len(s) >= Len(p) /\ SubSeq(s, 1, Len(p)) = p

EndsWith(s, p) == Len(s) >= Len(p) /\ SubSeq(s, Len(s) - Len(p) + 1, Len(s)) = p

\* str.replace(old, new): every non-overlapping occurrence, leftmost first
RECURSIVE Replace(_, _, _)
Replace(s, old, new) ==
    IF s = <<>> THEN <<>>
    ELSE IF StartsWith(s, old)
         THEN new \o Replace(SubSeq(s, Len(old) + 1, Len(s)), old, new)
         ELSE <<Head(s)>> \o Replace(Tail(s), old, new)

RECURSIVE Flatten(_)
Flatten(ss) == IF ss = <<>> THEN <<>> ELSE Head(ss) \o Flatten(Tail(ss))

\* all sequences over S of length 0..n
RECURSIVE SeqsUpTo(_, _)
SeqsUpTo(S, n) ==
    IF n = 0 THEN {<<>>}
    ELSE LET shorter == SeqsUpTo(S, n - 1)
         IN  shorter \cup {Append(s, x) : s \in shorter, x \in S}

-----------------------------------------------------------------------------
(* Values of a row *)

None == [tag |-> "None", str |-> <<>>, transf |-> FALSE]

Str(s) == [tag |-> "str", str |-> s, transf |-> FALSE]


-----------------------------------------------------------------------------
(* The transform registry, imdb.parser.s3.utils.DB_TRANSFORM (line 32)     *)

\* the columns of table tbl whose configuration holds a 'transform'
DB_TRANSFORM(tbl) == IF tbl = <<"t">> THEN {<<"a">>} ELSE {}

\* a transform function raises on a value it cannot convert
TransformRaises(v) == v.tag = "str" /\ v.str = <<"N">>

\* a transform function's result: distinct for distinct arguments
Transform(v) == [v EXCEPT !.transf = TRUE]

-----------------------------------------------------------------------------
(* generate_content, the body of its loop over the lines (lines 62-70)     *)

\* lines 57-60: data_transf, keyed by column
data_transf(tbl) == DB_TRANSFORM(tbl)

\* line 62: line.decode('utf-8').strip().split('\t')
s_line(line) == Split(Strip(line), TAB)

\* line 65: x if x != r'\N' else None
NullConv(x) == IF x # NullToken THEN Str(x) ELSE None

LastIndex(hdrs, h) ==
    CHOOSE k \in 1..Len(hdrs) :
        hdrs[k] = h /\ \A j \in (k + 1)..Len(hdrs) : hdrs[j] # h

\* line 65: dict(zip(headers, [...])); a repeated header keeps its last field
ZipInfo(hdrs, fields) ==
    [h \in {hdrs[k] : k \in 1..Len(hdrs)} |->
        NullConv(fields[LastIndex(hdrs, h)])]

\* a variant of ApplyTransforms: no transform is applied
ApplyTransformsNone(info, tbl) == info

\* lines 66-69: every registered transform whose column is a key of info
ApplyTransforms(info, tbl) ==
    [h \in DOMAIN info |->
        IF h \in data_transf(tbl) THEN Transform(info[h]) ELSE info[h]]

\* lines 62-69 for one line: the line is skipped (line 64), a transform
\* raises (line 69), or the row info is built
ProcessLine(line, hdrs, tbl) ==
    LET fields == s_line(line)
    IN  IF Len(fields) # Len(hdrs)
        THEN [status |-> "skip", info |-> <<>>]
        ELSE LET info == ZipInfo(hdrs, fields)
             IN  IF \E key \in data_transf(tbl) \cap DOMAIN info :
                        TransformRaises(info[key])
                 THEN [status |-> "raise", info |-> <<>>]
                 ELSE [status |-> "row", info |-> ApplyTransforms(info, tbl)]

-----------------------------------------------------------------------------
(* build_table: the table name (line 88)                                   *)

\* fn.replace(TSV_EXT, '').replace('.', '_')
TableName(fn) == Replace(Replace(fn, TSV_EXT, <<>>), <<DOT>>, <<USC>>)

-----------------------------------------------------------------------------
(* What the claims speak of                                                *)

\* a line without its newline
Chomp(line) ==
    IF line # <<>> /\ line[Len(line)] = NL
    THEN SubSeq(line, 1, Len(line) - 1)
    ELSE line

\* the tab-separated fields of a line of the file
RawFields(line) == Split(Chomp(line), TAB)

\* a file name with its trailing .tsv.gz (and only that one) removed
RemoveSuffix(fn) ==
    IF EndsWith(fn, TSV_EXT) THEN SubSeq(fn, 1, Len(fn) - Len(TSV_EXT)) ELSE fn

-----------------------------------------------------------------------------
(* Inputs                                                                  *)

LineChars == {"a", "N", BSL, TAB, SP}

\* SpecLine: every line of up to MaxLineLen characters, with its newline
AllLines == {Append(body, NL) : body \in SeqsUpTo(LineChars, MaxLineLen)}

HeaderChoices == {<<<<"a">>>>, <<<<"a">>, <<"b">>>>, <<<<"b">>, <<"a">>>>,
                  <<<<"a">>, <<"a">>>>}

Tables == {<<"t">>, <<"u">>}

StemPieces == {<<"t">>, <<DOT>>, <<USC>>, TSV_EXT}

\* SpecName: the names glob's pattern '*.tsv.gz' matches
FileNames ==
    {Flatten(parts) \o TSV_EXT : parts \in SeqsUpTo(StemPieces, MaxStemParts)}

\* Spec: the lines a file's stream may hold
SampleLines == { <<"a", TAB, "a", NL>>,
                 <<"a", NL>>,
                 <<"a", TAB, NL>>,
                 <<"N", TAB, "a", NL>> }

\* Spec: the header lines a file may start with
SampleHeaders == { <<"a", TAB, "b", NL>>, <<"a", NL>> }

\* Spec: what the directory may hold; d.tsv.gz is a directory
Entries == { [name |-> <<"t">> \o TSV_EXT, isfile |-> TRUE],
             [name |-> <<"u">> \o TSV_EXT, isfile |-> TRUE],
             [name |-> <<"d">> \o TSV_EXT, isfile |-> FALSE] }

Listings ==
    {l \in SeqsUpTo(Entries, MaxFiles) :
        l # <<>> /\ \A j, k \in 1..Len(l) : l[j].name = l[k].name => j = k}

-----------------------------------------------------------------------------
(* Spec: import_dir, import_file and generate_content                      *)

Idle == <<>>

ProbeIdle ==
    /\ lnIn = Idle
    /\ lnOut = Idle
    /\ fnIn = Idle
    /\ fnOut = Idle

\* no file is open: the state of import_file and of the generator is unset
FileIdle ==
    /\ headers = <<>>
    /\ table = <<>>
    /\ nread = 0
    /\ data = <<>>
    /\ block = <<>>
    /\ count = 0
    /\ db = <<>>
    /\ errLog = <<>>
    /\ endLog = <<>>
    /\ yielded = <<>>
    /\ requests = 0
    /\ nMatch = 0
    /\ failKind = "none"
    /\ failRows = 0
    /\ gpc = "none"

Init ==
    /\ listing \in Listings
    /\ i = 1
    /\ pc = "dir"
    /\ invoked = {}
    /\ failedFiles = {}
    /\ FileIdle
    /\ ProbeIdle

\* import_dir, lines 134-136: an entry that is no regular file is skipped
SkipEntry ==
    /\ pc = "dir"
    /\ i <= Len(listing)
    /\ ~listing[i].isfile
    /\ i' = i + 1
    /\ UNCHANGED <<listing, pc, invoked, failedFiles, fileVars, probeVars>>

\* import_dir line 137 and import_file lines 107-117: the header is read,
\* the table built and created, and the generator asked for its first block
StartFile ==
    /\ pc = "dir"
    /\ i <= Len(listing)
    /\ listing[i].isfile
    /\ \E hl \in SampleHeaders :
          headers' = Split(Strip(hl), TAB)
    /\ table' = TableName(listing[i].name)
    /\ count' = 0
    /\ block' = <<>>
    /\ db' = <<>>
    /\ data' = <<>>
    /\ nread' = 0
    /\ errLog' = <<>>
    /\ endLog' = <<>>
    /\ yielded' = <<>>
    /\ requests' = 1
    /\ nMatch' = 0
    /\ failKind' = "none"
    /\ failRows' = 0
    /\ gpc' = "loop"
    /\ pc' = "next"
    /\ invoked' = invoked \cup {i}
    /\ UNCHANGED <<listing, i, failedFiles, probeVars>>

\* import_dir: the listing is exhausted
DirDone ==
    /\ pc = "dir"
    /\ i > Len(listing)
    /\ pc' = "done"
    /\ UNCHANGED <<listing, i, invoked, failedFiles, fileVars, probeVars>>

\* a variant of Full: > for >=
FullAbove(d) == Len(d) > BLOCK_SIZE

\* line 71: len(data) >= BLOCK_SIZE
Full(d) == Len(d) >= BLOCK_SIZE

\* generate_content, lines 61-71: one line of fd is read and processed
GenLine ==
    /\ pc = "next"
    /\ gpc = "loop"
    /\ nread < MaxLines
    /\ \E line \in SampleLines :
          LET r == ProcessLine(line, headers, table)
          IN  /\ nread' = nread + 1
              /\ nMatch' = IF Len(RawFields(line)) = Len(headers)
                           THEN nMatch + 1 ELSE nMatch
              /\ CASE r.status = "skip" ->
                        UNCHANGED <<data, gpc, pc, failKind, failRows, failedFiles>>
                   [] r.status = "raise" ->
                        \* line 69 raises: the exception leaves the generator
                        \* and reaches import_file's except clause
                        /\ gpc' = "closed"
                        /\ pc' = "except"
                        /\ failKind' = "transform"
                        /\ failRows' = Len(data)
                        /\ failedFiles' = failedFiles \cup {i}
                        /\ UNCHANGED data
                   [] r.status = "row" ->
                        /\ data' = Append(data, [info |-> r.info, src |-> line])
                        /\ gpc' = IF Full(data') THEN "yield72" ELSE "loop"
                        /\ UNCHANGED <<pc, failKind, failRows, failedFiles>>
    /\ UNCHANGED <<listing, i, invoked, headers, table, block, count, db,
                   errLog, endLog, yielded, requests, probeVars>>

\* a variant of Leftover: the final block is yielded without the test
LeftoverAlways(d) == TRUE

\* line 74: if data
Leftover(d) == d # <<>>

\* generate_content, line 61 with fd exhausted, and line 74
GenExhausted ==
    /\ pc = "next"
    /\ gpc = "loop"
    /\ IF Leftover(data)
       THEN /\ gpc' = "yield75"
            /\ pc' = pc
       ELSE \* the generator returns: import_file's for loop ends
            /\ gpc' = "closed"
            /\ pc' = "summary"
    /\ UNCHANGED <<listing, i, invoked, failedFiles, headers, table, nread,
                   data, block, count, db, errLog, endLog, yielded, requests,
                   nMatch, failKind, failRows, probeVars>>

\* lines 72 and 75 (yield data) and line 117 (block is bound to it)
GenYield ==
    /\ pc = "next"
    /\ gpc \in {"yield72", "yield75"}
    /\ block' = data
    /\ yielded' = Append(yielded, data)
    /\ gpc' = IF gpc = "yield72" THEN "susp72" ELSE "susp75"
    /\ pc' = "execute"
    /\ UNCHANGED <<listing, i, invoked, failedFiles, headers, table, nread,
                   data, count, db, errLog, endLog, requests, nMatch,
                   failKind, failRows, probeVars>>

\* lines 118-119: the bulk insert completes, count grows, and the for loop
\* asks the generator for the next block
ExecuteOk ==
    /\ pc = "execute"
    /\ db' = db \o block
    /\ count' = count + Len(block)
    /\ requests' = requests + 1
    /\ pc' = "next"
    /\ UNCHANGED <<listing, i, invoked, failedFiles, headers, table, nread,
                   data, block, errLog, endLog, yielded, nMatch, failKind,
                   failRows, gpc, probeVars>>

\* a variant of ExecuteFail: count grows before the insert is executed
ExecuteFailCounted ==
    /\ pc = "execute"
    /\ pc' = "except"
    /\ count' = count + Len(block)
    /\ failKind' = "insert"
    /\ failRows' = Len(block)
    /\ failedFiles' = failedFiles \cup {i}
    /\ UNCHANGED <<listing, i, invoked, headers, table, nread, data, block,
                   db, errLog, endLog, yielded, requests, nMatch, gpc,
                   probeVars>>

\* line 118 raises: nothing of the block is inserted, line 119 is not
\* reached, and the exception reaches the except clause
ExecuteFail ==
    /\ pc = "execute"
    /\ pc' = "except"
    /\ failKind' = "insert"
    /\ failRows' = Len(block)
    /\ failedFiles' = failedFiles \cup {i}
    /\ UNCHANGED <<listing, i, invoked, headers, table, nread, data, block,
                   count, db, errLog, endLog, yielded, requests, nMatch, gpc,
                   probeVars>>

\* the generator is resumed after its yield: line 73, or line 76 and the end
GenResume ==
    /\ pc = "next"
    /\ gpc \in {"susp72", "susp75"}
    /\ data' = <<>>
    /\ IF gpc = "susp72"
       THEN /\ gpc' = "loop"
            /\ pc' = pc
       ELSE /\ gpc' = "closed"
            /\ pc' = "summary"
    /\ UNCHANGED <<listing, i, invoked, failedFiles, headers, table, nread,
                   block, count, db, errLog, endLog, yielded, requests,
                   nMatch, failKind, failRows, probeVars>>

\* a variant of Except: the try statement is inside the for loop, and the
\* loop asks the generator for the next block after the error is logged
ExceptContinue ==
    /\ pc = "except"
    /\ errLog' = <<Len(block)>>
    /\ pc' = IF gpc = "closed" THEN "summary" ELSE "next"
    /\ requests' = IF gpc = "closed" THEN requests ELSE requests + 1
    /\ UNCHANGED <<listing, i, invoked, failedFiles, headers, table, nread,
                   data, block, count, db, endLog, yielded, nMatch,
                   failKind, failRows, gpc, probeVars>>

\* a variant of Except: the error is logged and raised again, out of
\* import_file and import_dir
ExceptRaise ==
    /\ pc = "except"
    /\ errLog' = <<Len(block)>>
    /\ pc' = "done"
    /\ UNCHANGED <<listing, i, invoked, failedFiles, headers, table, nread,
                   data, block, count, db, endLog, yielded, requests, nMatch,
                   failKind, failRows, gpc, probeVars>>

\* lines 120-121: the error is logged with len(block); the try statement
\* ends and line 122 follows
Except ==
    /\ pc = "except"
    /\ errLog' = <<Len(block)>>
    /\ pc' = "summary"
    /\ UNCHANGED <<listing, i, invoked, failedFiles, headers, table, nread,
                   data, block, count, db, endLog, yielded, requests, nMatch,
                   failKind, failRows, gpc, probeVars>>

\* line 122: the end of the file is logged with count
Summary ==
    /\ pc = "summary"
    /\ endLog' = <<count>>
    /\ pc' = "ret"
    /\ UNCHANGED <<listing, i, invoked, failedFiles, headers, table, nread,
                   data, block, count, db, errLog, yielded, requests, nMatch,
                   failKind, failRows, gpc, probeVars>>

\* import_file returns and import_dir goes to the next entry (line 133)
Return ==
    /\ pc = "ret"
    /\ i' = i + 1
    /\ pc' = "dir"
    /\ UNCHANGED <<listing, invoked, failedFiles, fileVars, probeVars>>

Next ==
    \/ SkipEntry
    \/ StartFile
    \/ DirDone
    \/ GenLine
    \/ GenExhausted
    \/ GenYield
    \/ GenResume
    \/ ExecuteOk
    \/ ExecuteFail
    \/ Except
    \/ Summary
    \/ Return

Spec == Init /\ [][Next]_vars

\* the program is sequential and runs until import_dir returns
FairSpec == Spec /\ WF_vars(Next)

-----------------------------------------------------------------------------
(* SpecLine: lines 62-70 of generate_content on one line                   *)

\* Spec's variables, unused by SpecLine and SpecName
MainIdle ==
    /\ listing = <<>>
    /\ i = 1
    /\ pc = "idle"
    /\ invoked = {}
    /\ failedFiles = {}
    /\ FileIdle

mainVars == <<listing, i, pc, invoked, failedFiles, fileVars>>

InitLine ==
    /\ lnIn \in [line : AllLines, headers : HeaderChoices, table : Tables]
    /\ lnOut = Idle
    /\ fnIn = Idle
    /\ fnOut = Idle
    /\ MainIdle

\* the line is processed: skipped, a transform raises, or a row is built
LineStep ==
    /\ lnIn # Idle
    /\ lnOut = Idle
    /\ lnOut' = <<ProcessLine(lnIn.line, lnIn.headers, lnIn.table)>>
    /\ UNCHANGED <<lnIn, fnIn, fnOut, mainVars>>

NextLine == LineStep

SpecLine == InitLine /\ [][NextLine]_vars

-----------------------------------------------------------------------------
(* SpecName: the table name build_table derives from a file name           *)

InitName ==
    /\ fnIn \in FileNames
    /\ fnOut = Idle
    /\ lnIn = Idle
    /\ lnOut = Idle
    /\ MainIdle

\* line 88
BuildTable ==
    /\ fnIn # Idle
    /\ fnOut = Idle
    /\ fnOut' = <<TableName(fnIn)>>
    /\ UNCHANGED <<fnIn, lnIn, lnOut, mainVars>>

NextName == BuildTable

SpecName == InitName /\ [][NextName]_vars

-----------------------------------------------------------------------------
(* The claims                                                              *)

\* the generator ran to its end, with no error
GenFinished == gpc = "closed" /\ failKind = "none"

Rows(blocks) == Flatten(blocks)

\* import_file is running
InFile == pc \in {"next", "execute", "except", "summary"}

\* C1 (as stated): once generate_content has consumed its stream, the rows
\* of all the blocks it yielded are as many as the data lines read whose
\* number of tab-separated fields equals the number of headers, and every
\* yielded row comes from such a line.
C1_RowsAreMatchingLines ==
    GenFinished =>
        /\ Len(Rows(yielded)) = nMatch
        /\ \A k \in 1..Len(Rows(yielded)) :
              Len(RawFields(Rows(yielded)[k].src)) = Len(headers)

\* C2: every yielded block holds between 1 and BLOCK_SIZE rows, and every
\* block but the last one yielded holds exactly BLOCK_SIZE rows; so no
\* empty block is yielded, also when the accepted rows are a multiple of
\* BLOCK_SIZE.
C2_BlockSizes ==
    \A k \in 1..Len(yielded) :
        /\ Len(yielded[k]) >= 1
        /\ Len(yielded[k]) <= BLOCK_SIZE
        /\ (k < Len(yielded) => Len(yielded[k]) = BLOCK_SIZE)

\* C2's case: two full blocks were yielded and the generator ended without
\* a trailing block
C2_Witness ==
    /\ GenFinished
    /\ Len(yielded) = 2
    /\ Len(yielded[2]) = BLOCK_SIZE

\* C3: once the insert of block k has failed, the blocks before k are in
\* the database and stay there, block k's rows are not counted, and the
\* generator is never asked for another block of the file: block k stays
\* the last block yielded and nothing more is inserted.
C3_FailedBlockStopsFile ==
    failKind = "insert" =>
        LET k == Len(yielded)
        IN  /\ k >= 1
            /\ block = yielded[k]
            /\ db = Rows(SubSeq(yielded, 1, k - 1))
            /\ count = Len(db)
            /\ requests = k
            /\ pc \notin {"next", "execute"}

\* C3's case: block 2 failed after block 1 was inserted, the file is done
\* and lines of the file were left unread
C3_Witness ==
    /\ failKind = "insert"
    /\ Len(yielded) = 2
    /\ pc = "ret"
    /\ db = yielded[1]
    /\ nread < MaxLines

\* C4 (as stated): the error diagnostic of import_file reports as lost the
\* number of rows of the failing block: the rows of the block whose insert
\* raised, or the rows buffered in the block being built when a transform
\* raised.
C4_LostCountIsFailingBlock ==
    errLog # <<>> => errLog[1] = failRows

\* C5: a failure in one file does not leave import_file: import_file has
\* been invoked for every regular file before the current entry, and
\* import_dir ends only after the last entry.
C5_EveryFileImported ==
    /\ \A k \in 1..Len(listing) :
          (k < i /\ listing[k].isfile) => k \in invoked
    /\ pc = "done" => i > Len(listing)

\* C5's case: import_dir has ended, and import_file was invoked for a file
\* listed after one whose import failed
C5_Witness ==
    /\ pc = "done"
    /\ \E k \in failedFiles : \E j \in invoked : k < j

RowBuilt == lnOut # Idle /\ lnOut[1].status = "row"

\* the columns of the row that have a registered transform
TransformedColumns ==
    data_transf(lnIn.table) \cap DOMAIN lnOut[1].info

\* the field of the line the column C is zipped with
FieldOf(fields, C) == fields[LastIndex(lnIn.headers, C)]

\* C7 (as stated), on the lines strip() leaves as they are: the row's
\* value for a column with a registered transform is the transform applied
\* to the original field of the line.
C7_TransformOfOriginalField ==
    (RowBuilt /\ s_line(lnIn.line) = RawFields(lnIn.line)) =>
        \A C \in TransformedColumns :
            lnOut[1].info[C] = Transform(Str(FieldOf(RawFields(lnIn.line), C)))

\* C7 (amended): the row's value for a column with a registered transform
\* is the transform applied to the value the row held for it before: the
\* absent value when the field split from the stripped line is \N, else
\* that field.
C7_TransformOfRowValue ==
    RowBuilt =>
        \A C \in TransformedColumns :
            LET f == FieldOf(s_line(lnIn.line), C)
            IN  lnOut[1].info[C] =
                    Transform(IF f = NullToken THEN None ELSE Str(f))

\* C7's case: a row whose transformed column came from a \N field
C7_Witness ==
    /\ RowBuilt
    /\ \E C \in TransformedColumns :
          /\ FieldOf(RawFields(lnIn.line), C) = NullToken
          /\ lnOut[1].info[C] = Transform(None)

\* C8 (as stated), for the rows with as many fields as headers and the
\* columns without a transform: a field equal to \N is the absent value in
\* the row, and every other field keeps its string value.
C8_FieldsKeepTheirValue ==
    (RowBuilt /\ Len(RawFields(lnIn.line)) = Len(lnIn.headers)) =>
        \A C \in DOMAIN lnOut[1].info \ TransformedColumns :
            LET f == FieldOf(RawFields(lnIn.line), C)
            IN  lnOut[1].info[C] = IF f = NullToken THEN None ELSE Str(f)

\* C9 (as stated): the table name is the file name without its trailing
\* .tsv.gz, with every remaining dot replaced by an underscore.
C9_TableNameIsStem ==
    fnOut # Idle =>
        fnOut[1] = Replace(RemoveSuffix(fnIn), <<DOT>>, <<USC>>)

\* the rows held in memory by import_file and its generator: between the
\* yield and the generator's resumption data and block are the same list
RowsHeld ==
    IF gpc \in {"susp72", "susp75"}
    THEN Len(block)
    ELSE Len(data) + Len(block)

\* C10 (as stated): during import_file at most BLOCK_SIZE rows are held.
C10_HeldWithinBlockSize == InFile => RowsHeld <= BLOCK_SIZE

\* C10 (amended): during import_file at most 2 * BLOCK_SIZE rows are held:
\* the block of the loop variable and the buffer the generator fills.
C10_HeldWithinTwoBlocks == InFile => RowsHeld <= 2 * BLOCK_SIZE

\* C10's case: the generator is about to yield a full buffer while
\* import_file still holds the previous block
C10_Witness ==
    /\ pc = "next"
    /\ gpc = "yield72"
    /\ RowsHeld = 2 * BLOCK_SIZE

====
